---- MODULE Spec2Model ----
(***************************************************************************)
(* Offline-first task manager: TaskService (createTask / updateTask /      *)
(* deleteTask) and SyncService.sync() over the two SQLite tables `tasks`   *)
(* and `sync_queue`.                                                       *)
(*                                                                         *)
(* A task mutation is one atomic action.  A sync() run is a process that   *)
(* yields at its `await`s: the health probe, the SELECT of the queue, the  *)
(* batch POST, and every db.run of updateSyncStatus and handleSyncError.   *)
(* Other request handlers (task mutations, another POST /sync) interleave  *)
(* at those points.                                                        *)
(*                                                                         *)
(* Not modelled: the columns description, completed, server_id,            *)
(* last_synced_at, error_message and the queue item's data payload (no     *)
(* transition reads them).  A db.run that rejects (storage I/O error) is   *)
(* an action of SpecStorage only.                                          *)
(***************************************************************************)
EXTENDS Integers, Sequences, FiniteSets, TLC

\* ---------------------------------------------------------------- bounds
NumTasks  == 2      \* task identifiers that createTask may draw
MaxItems  == 2      \* task mutations (= queue items ever enqueued)
BatchSize == 2      \* the largest SYNC_BATCH_SIZE (configurable; default 50)
MaxSpin   == 2      \* iterations followed of a loop that does not end

\* ------------------------------------------------------ program constants
MaxRetries == 3     \* retry_count < 3 / retryCount >= 3

TaskIds     == 1..NumTasks
ItemIds     == 1..MaxItems
RunIds      == {1, 2}
ServerTimes == 1..(MaxItems + 1)
CreateTitle == "Shared Task"
UpdateTitle == "Local Update"
ServerTitle == "Server Update"
NoTitle     == "(unchanged)"
NoData      == [title |-> "", updated_at |-> 0]
NoItem      == [id |-> 0, task_id |-> 0, operation |-> "unknown",
                created_at |-> 0, retry_count |-> 0]
NoResult    == [success |-> FALSE, synced_items |-> 0, failed_items |-> 0,
                errors |-> <<>>, returned |-> FALSE]
AbsentRow   == [exists |-> FALSE, title |-> "", updated_at |-> 0,
                is_deleted |-> FALSE, sync_status |-> "none"]

VARIABLES
  tasks,        \* table tasks: task id -> row (AbsentRow: no such row)
  queue,        \* table sync_queue: a set of rows
  nextId,       \* the next mutation's sequence number: item id and clock
  run,          \* per sync() invocation: its position and local variables
  hist,         \* per sync() invocation: what it has done so far (observer)
  streak,       \* observer: consecutive completed runs that failed wholesale
  streakTasks,  \* observer: tasks with a pending item when the streak began
  batchSize,    \* process.env.SYNC_BATCH_SIZE
  attempts      \* observer: item id -> number of runs that submitted it

vars == <<tasks, queue, nextId, run, hist, streak, streakTasks, batchSize,
          attempts>>

\* -------------------------------------------------------------- helpers
Min(S) == CHOOSE x \in S : \A y \in S : x <= y

Range(s) == {s[i] : i \in DOMAIN s}

Ids(S) == {x.id : x \in S}

\* (mutant) a slice of one element whatever its end
SliceOne(s, i, j) == SubSeq(s, i + 1, i + 1)

\* Array.prototype.slice(i, j): 0-based, half-open, clipped to the length.
Slice(s, i, j) == SubSeq(s, i + 1, IF j < Len(s) THEN j ELSE Len(s))

\* (mutant) ORDER BY created_at DESC
RECURSIVE SortByCreatedAtDesc(_)
SortByCreatedAtDesc(S) ==
  IF S = {} THEN <<>>
  ELSE LET x == CHOOSE y \in S : \A z \in S : y.created_at >= z.created_at
       IN  <<x>> \o SortByCreatedAtDesc(S \ {x})

\* ORDER BY created_at ASC
RECURSIVE SortByCreatedAt(_)
SortByCreatedAt(S) ==
  IF S = {} THEN <<>>
  ELSE LET x == CHOOSE y \in S : \A z \in S : y.created_at <= z.created_at
       IN  <<x>> \o SortByCreatedAt(S \ {x})

\* SELECT * FROM sync_queue WHERE retry_count < 3 ORDER BY created_at ASC
PendingItems(q) == SortByCreatedAt({x \in q : x.retry_count < MaxRetries})

\* for (let i = 0; i < n; i += BATCH_SIZE) batches.push(items.slice(i, i + BATCH_SIZE))
RECURSIVE BatchesFrom(_, _)
BatchesFrom(its, i) ==
  IF i < Len(its)
  THEN <<Slice(its, i, i + batchSize)>> \o BatchesFrom(its, i + batchSize)
  ELSE <<>>

Batches(its) == BatchesFrom(its, 0)

\* batch.find(b => b.task_id === client_id): the first match, or undefined
Find(batch, tid) ==
  LET idx == {j \in DOMAIN batch : batch[j].task_id = tid}
  IN  IF idx = {} THEN NoItem ELSE batch[Min(idx)]

\* TaskService.getTask: SELECT * FROM tasks WHERE id = ? AND is_deleted = 0
getTask(ts, id) ==
  IF ts[id].exists /\ ~ts[id].is_deleted THEN ts[id] ELSE AbsentRow

\* (mutant) the server version always wins
resolveConflictServerAlways(localTask, serverTask) == serverTask

\* (mutant) the local version wins a tie
resolveConflictLocalOnTie(localTask, serverTask) ==
  IF localTask.updated_at >= serverTask.updated_at
  THEN [title |-> localTask.title, updated_at |-> localTask.updated_at]
  ELSE serverTask

\* last-write-wins: the local version only when strictly newer
resolveConflict(localTask, serverTask) ==
  IF localTask.updated_at > serverTask.updated_at
  THEN [title |-> localTask.title, updated_at |-> localTask.updated_at]
  ELSE serverTask

\* (mutant) the queue item is inserted with one retry already counted
NewItemRetried(id, tid, op) ==
  [id |-> id, task_id |-> tid, operation |-> op, created_at |-> id,
   retry_count |-> 1]

\* INSERT INTO sync_queue (id, task_id, operation, data, created_at)
NewItem(id, tid, op) ==
  [id |-> id, task_id |-> tid, operation |-> op, created_at |-> id,
   retry_count |-> 0]

\* (mutant) the UPDATE of the retry counter changes no row
UpdateRetryNone(q, id, n) == q

\* UPDATE sync_queue SET retry_count = ?, error_message = ? WHERE id = ?
UpdateRetry(q, id, n) ==
  {IF x.id = id THEN [x EXCEPT !.retry_count = n] ELSE x : x \in q}

\* DELETE FROM sync_queue WHERE task_id = ?
DeleteByTask(q, tid) == {x \in q : x.task_id # tid}

\* (mutant) the purge leaves the item where it is
DeleteByIdKeeps(q, id) == q

\* DELETE FROM sync_queue WHERE id = ?
DeleteById(q, id) == {x \in q : x.id # id}

\* (mutant) the UPDATE of the task's sync status changes no row
SetSyncStatusNone(ts, id, st) == ts

\* UPDATE tasks SET sync_status = ? ... WHERE id = ?
SetSyncStatus(ts, id, st) ==
  [t \in TaskIds |->
     IF t = id /\ ts[t].exists THEN [ts[t] EXCEPT !.sync_status = st] ELSE ts[t]]

\* (mutant) the failure handler writes the counter back unchanged
NewRetryCountStuck(item) == item.retry_count

\* const retryCount = item.retry_count + 1
NewRetryCount(item) == item.retry_count + 1

\* (mutant) the offline result without its synthetic error entry
OfflineResultNoEntry ==
  [success |-> FALSE, synced_items |-> 0, failed_items |-> 0,
   errors |-> <<>>, returned |-> TRUE]

\* the result returned when the health probe fails; its one error entry has
\* task_id '' (0 here) and operation 'sync'
OfflineResult ==
  [success |-> FALSE, synced_items |-> 0, failed_items |-> 0,
   errors |-> <<[task_id |-> 0, operation |-> "sync"]>>, returned |-> TRUE]

\* (mutant) the empty run reports a failure
EmptyResultFailed ==
  [success |-> FALSE, synced_items |-> 0, failed_items |-> 0,
   errors |-> <<>>, returned |-> TRUE]

\* the result returned when no item is pending
EmptyResult ==
  [success |-> TRUE, synced_items |-> 0, failed_items |-> 0,
   errors |-> <<>>, returned |-> TRUE]

\* (mutant) the final result reports success whatever failed
FinalResultAlwaysOk(syncedItems, failedItems, errors) ==
  [success |-> TRUE, synced_items |-> syncedItems,
   failed_items |-> failedItems, errors |-> errors, returned |-> TRUE]

\* the result returned after the last batch
FinalResult(syncedItems, failedItems, errors) ==
  [success |-> failedItems = 0, synced_items |-> syncedItems,
   failed_items |-> failedItems, errors |-> errors, returned |-> TRUE]

\* ----------------------------------------------------------------- Init
IdleRun ==
  [pc |-> "idle", syncQueueItems |-> <<>>, batches |-> <<>>, bi |-> 0,
   mode |-> "none", processed |-> <<>>, k |-> 0, item |-> NoItem,
   syncedItems |-> 0, failedItems |-> 0, errors |-> <<>>,
   result |-> NoResult]

FreshHist ==
  [advanced |-> {}, removedOnSuccess |-> {}, quiet |-> TRUE,
   allFailed |-> TRUE, allSuccess |-> TRUE, caught |-> 0,
   fault |-> FALSE]

Init ==
  /\ tasks = [t \in TaskIds |-> AbsentRow]
  /\ queue = {}
  /\ nextId = 1
  /\ run = [r \in RunIds |-> IdleRun]
  /\ hist = [r \in RunIds |-> FreshHist]
  /\ streak = 0
  /\ streakTasks = {}
  /\ batchSize \in 1..BatchSize
  /\ attempts = [i \in ItemIds |-> 0]

\* ------------------------------------------------------- task mutations
\* A mutation ends a streak of failed runs and is seen by every run in flight.
Mutated ==
  /\ nextId' = nextId + 1
  /\ hist' = [r \in RunIds |->
                IF run[r].pc = "idle" THEN hist[r]
                ELSE [hist[r] EXCEPT !.quiet = FALSE]]
  /\ streak' = 0
  /\ streakTasks' = {}
  /\ UNCHANGED <<run, batchSize, attempts>>

createTask(t) ==
  /\ nextId <= MaxItems
  /\ ~tasks[t].exists
  /\ tasks' = [tasks EXCEPT ![t] =
                 [exists |-> TRUE, title |-> CreateTitle, updated_at |-> nextId,
                  is_deleted |-> FALSE, sync_status |-> "pending"]]
  /\ queue' = queue \cup {NewItem(nextId, t, "create")}
  /\ Mutated

updateTask(t, title) ==
  /\ nextId <= MaxItems
  /\ getTask(tasks, t).exists
  /\ tasks' = [tasks EXCEPT ![t] =
                 [@ EXCEPT !.title = IF title = NoTitle THEN @ ELSE title,
                           !.updated_at = nextId,
                           !.sync_status = "pending"]]
  /\ queue' = queue \cup {NewItem(nextId, t, "update")}
  /\ Mutated

deleteTask(t) ==
  /\ nextId <= MaxItems
  /\ getTask(tasks, t).exists
  /\ tasks' = [tasks EXCEPT ![t] =
                 [@ EXCEPT !.is_deleted = TRUE,
                           !.updated_at = nextId,
                           !.sync_status = "pending"]]
  /\ queue' = queue \cup {NewItem(nextId, t, "delete")}
  /\ Mutated

\* ------------------------------------------------------------- sync()
CurBatch(rec) == rec.batches[rec.bi]

\* What the remote may answer for one submitted item: a verdict and, for a
\* conflict, the server's version (its last-modified time).
Verdicts ==
  {[status |-> "success", server_at |-> 0], [status |-> "error", server_at |-> 0]}
    \cup {[status |-> "conflict", server_at |-> s] : s \in ServerTimes}

\* processBatch, for one item of the response: a conflict is resolved and
\* turned into a success when getTask finds the local task.
ProcessItem(ts, it, v) ==
  LET localTask  == getTask(ts, it.task_id)
      serverTask == [title |-> ServerTitle, updated_at |-> v.server_at]
  IN  IF v.status = "conflict" /\ localTask.exists
      THEN [client_id |-> it.task_id, status |-> "success", verdict |-> "conflict",
            server_at |-> v.server_at,
            resolved_data |-> resolveConflict(localTask, serverTask)]
      ELSE [client_id |-> it.task_id, status |-> v.status, verdict |-> v.status,
            server_at |-> v.server_at,
            resolved_data |-> IF v.status = "conflict" THEN serverTask ELSE NoData]

\* (mutant) the run ends after a batch that failed at the transport
AdvanceStopsOnCatch(rec) ==
  LET n == IF rec.mode = "catch" THEN Len(CurBatch(rec)) ELSE Len(rec.processed)
  IN  IF rec.k < n
      THEN [rec EXCEPT !.pc = "apply", !.k = @ + 1, !.item = NoItem]
      ELSE IF rec.bi < Len(rec.batches) /\ rec.mode # "catch"
      THEN [rec EXCEPT !.pc = "send", !.bi = @ + 1, !.mode = "none",
                       !.processed = <<>>, !.k = 0, !.item = NoItem]
      ELSE [rec EXCEPT !.pc = "done", !.item = NoItem,
                       !.result = FinalResult(rec.syncedItems, rec.failedItems,
                                              rec.errors)]

\* The loops of sync(): the next verdict (or item) of the batch, else the next
\* batch, else the result.
Advance(rec) ==
  LET n == IF rec.mode = "catch" THEN Len(CurBatch(rec)) ELSE Len(rec.processed)
  IN  IF rec.k < n
      THEN [rec EXCEPT !.pc = "apply", !.k = @ + 1, !.item = NoItem]
      ELSE IF rec.bi < Len(rec.batches)
      THEN [rec EXCEPT !.pc = "send", !.bi = @ + 1, !.mode = "none",
                       !.processed = <<>>, !.k = 0, !.item = NoItem]
      ELSE [rec EXCEPT !.pc = "done", !.item = NoItem,
                       !.result = FinalResult(rec.syncedItems, rec.failedItems,
                                              rec.errors)]

\* failedItems++; errors.push({task_id, operation, ...})
CountFailure(rec) ==
  LET entry == IF rec.mode = "catch"
               THEN [task_id |-> rec.item.task_id, operation |-> rec.item.operation]
               ELSE [task_id |-> rec.processed[rec.k].client_id,
                     operation |-> Find(CurBatch(rec),
                                        rec.processed[rec.k].client_id).operation]
  IN  [rec EXCEPT !.failedItems = @ + 1, !.errors = Append(@, entry)]

\* the batch is posted to the remote: one more attempt for each of its items
\* (the observer stops counting past MaxRetries + 1)
Attempted(att, batch) ==
  [i \in ItemIds |->
     IF i \in Ids(Range(batch)) /\ att[i] <= MaxRetries THEN att[i] + 1
     ELSE att[i]]

\* POST /sync -> syncService.sync(): no lock, no in-flight check.
StartSync(r) ==
  /\ run[r].pc = "idle"
  /\ run' = [run EXCEPT ![r] = [IdleRun EXCEPT !.pc = "probe"]]
  /\ hist' = [hist EXCEPT ![r] = FreshHist]
  /\ UNCHANGED <<tasks, queue, nextId, streak, streakTasks, batchSize, attempts>>

\* checkConnectivity() and the early return when it is false
Probe(r) ==
  /\ run[r].pc = "probe"
  /\ \E isOnline \in BOOLEAN :
       IF isOnline
       THEN /\ run' = [run EXCEPT ![r].pc = "read"]
            /\ UNCHANGED hist
       ELSE /\ run' = [run EXCEPT ![r].pc = "done", ![r].result = OfflineResult]
            /\ hist' = [hist EXCEPT ![r].allFailed = FALSE]
  /\ UNCHANGED <<tasks, queue, nextId, streak, streakTasks, batchSize, attempts>>

\* the SELECT of the pending items, the empty result, the batches
ReadQueue(r) ==
  /\ run[r].pc = "read"
  /\ LET its == PendingItems(queue)
     IN  /\ Len(its) = 0 \/ batchSize > 0
         /\ run' = [run EXCEPT ![r] =
                      IF Len(its) = 0
                      THEN [@ EXCEPT !.pc = "done", !.result = EmptyResult]
                      ELSE [@ EXCEPT !.pc = "send", !.syncQueueItems = its,
                                     !.batches = Batches(its), !.bi = 1]]
         /\ streakTasks' = IF streak = 0 /\ hist[r].quiet
                           THEN {its[i].task_id : i \in DOMAIN its}
                           ELSE streakTasks
  /\ UNCHANGED <<tasks, queue, nextId, hist, streak, batchSize, attempts>>

\* processBatch: axios.post throws (network error, timeout) ...
SendFails(r) ==
  /\ run[r].pc = "send"
  /\ run' = [run EXCEPT ![r] =
               [@ EXCEPT !.pc = "apply", !.mode = "catch", !.k = 1]]
  /\ hist' = [hist EXCEPT ![r].allSuccess = FALSE, ![r].caught = run[r].bi]
  /\ attempts' = Attempted(attempts, CurBatch(run[r]))
  /\ UNCHANGED <<tasks, queue, nextId, streak, streakTasks, batchSize>>

\* ... or answers with one verdict per submitted item, in order
SendAnswers(r) ==
  /\ run[r].pc = "send"
  /\ LET batch == CurBatch(run[r])
     IN  \E v \in [DOMAIN batch -> Verdicts] :
           /\ run' = [run EXCEPT ![r] =
                        [@ EXCEPT !.pc = "apply", !.mode = "resp", !.k = 1,
                                  !.processed =
                                     [j \in DOMAIN batch |->
                                        ProcessItem(tasks, batch[j], v[j])]]]
           /\ hist' = [hist EXCEPT
                        ![r].allFailed = FALSE,
                        ![r].allSuccess =
                           @ /\ \A j \in DOMAIN batch : v[j].status = "success"]
  /\ attempts' = Attempted(attempts, CurBatch(run[r]))
  /\ UNCHANGED <<tasks, queue, nextId, streak, streakTasks, batchSize>>

\* updateSyncStatus, first statement: UPDATE tasks SET sync_status = 'synced'
ApplySynced(r) ==
  /\ run[r].pc = "apply"
  /\ run[r].mode = "resp"
  /\ run[r].processed[run[r].k].status = "success"
  /\ tasks' = SetSyncStatus(tasks, run[r].processed[run[r].k].client_id, "synced")
  /\ run' = [run EXCEPT ![r].pc = "applyDel"]
  /\ UNCHANGED <<queue, nextId, hist, streak, streakTasks, batchSize, attempts>>

\* updateSyncStatus, second statement: DELETE FROM sync_queue WHERE task_id = ?
\* and then syncedItems++
RemoveSynced(r) ==
  /\ run[r].pc = "applyDel"
  /\ LET tid == run[r].processed[run[r].k].client_id
     IN  /\ queue' = DeleteByTask(queue, tid)
         /\ hist' = [hist EXCEPT ![r].removedOnSuccess =
                       @ \cup Ids(queue \ DeleteByTask(queue, tid))]
  /\ run' = [run EXCEPT ![r] = Advance([@ EXCEPT !.syncedItems = @ + 1])]
  /\ UNCHANGED <<tasks, nextId, streak, streakTasks, batchSize, attempts>>

\* handleSyncError, first statement: UPDATE sync_queue SET retry_count = ?
\* called with the item of the failed batch, or with batch.find(...) of a verdict
RecordFailure(r) ==
  /\ run[r].pc = "apply"
  /\ IF run[r].mode = "catch" THEN TRUE
     ELSE run[r].processed[run[r].k].status # "success"
  /\ LET rec  == run[r]
         item == IF rec.mode = "catch" THEN CurBatch(rec)[rec.k]
                 ELSE Find(CurBatch(rec), rec.processed[rec.k].client_id)
         with == [rec EXCEPT !.item = item]
     IN  /\ queue' = UpdateRetry(queue, item.id, NewRetryCount(item))
         /\ hist' = [hist EXCEPT ![r].advanced =
                       @ \cup {x.id : x \in {y \in queue : y.id = item.id
                                  /\ y.retry_count < NewRetryCount(item)}}]
         /\ run' = [run EXCEPT ![r] =
                      IF NewRetryCount(item) >= MaxRetries
                      THEN [with EXCEPT !.pc = "errTask"]
                      ELSE Advance(CountFailure(with))]
  /\ UNCHANGED <<tasks, nextId, streak, streakTasks, batchSize, attempts>>

\* handleSyncError, retryCount >= 3: UPDATE tasks SET sync_status = 'error'
MarkTaskError(r) ==
  /\ run[r].pc = "errTask"
  /\ tasks' = SetSyncStatus(tasks, run[r].item.task_id, "error")
  /\ run' = [run EXCEPT ![r].pc = "errDel"]
  /\ UNCHANGED <<queue, nextId, hist, streak, streakTasks, batchSize, attempts>>

\* handleSyncError, retryCount >= 3: DELETE FROM sync_queue WHERE id = ?
PurgeItem(r) ==
  /\ run[r].pc = "errDel"
  /\ queue' = DeleteById(queue, run[r].item.id)
  /\ run' = [run EXCEPT ![r] = Advance(CountFailure(@))]
  /\ UNCHANGED <<tasks, nextId, hist, streak, streakTasks, batchSize, attempts>>

\* sync() has returned its result; the handler answers the request.
Return(r) ==
  /\ run[r].pc = "done"
  /\ run' = [run EXCEPT ![r] = IdleRun]
  /\ hist' = [hist EXCEPT ![r] = FreshHist]
  /\ IF hist[r].quiet /\ hist[r].allFailed
     THEN /\ streak' = IF streak < MaxRetries THEN streak + 1 ELSE streak
          /\ UNCHANGED streakTasks
     ELSE /\ streak' = 0
          /\ streakTasks' = {}
  /\ UNCHANGED <<tasks, queue, nextId, batchSize, attempts>>

SyncStep(r) ==
  \/ StartSync(r)
  \/ Probe(r)
  \/ ReadQueue(r)
  \/ SendFails(r)
  \/ SendAnswers(r)
  \/ ApplySynced(r)
  \/ RemoveSynced(r)
  \/ RecordFailure(r)
  \/ MarkTaskError(r)
  \/ PurgeItem(r)
  \/ Return(r)

Mutation ==
  \E t \in TaskIds :
    \/ createTask(t)
    \/ \E title \in {UpdateTitle, NoTitle} : updateTask(t, title)
    \/ deleteTask(t)

\* One sync() run at a time, task mutations at any time.
Next == Mutation \/ SyncStep(1)

Spec == Init /\ [][Next]_vars

\* the probe finds the remote reachable
ProbeOnline(r) == Probe(r) /\ run'[r].pc = "read"

\* Spec with sync() called again and again, every call running to its end,
\* and the remote reachable again and again.
SpecFair == Spec /\ WF_vars(SyncStep(1)) /\ SF_vars(ProbeOnline(1))

\* Overlapping POST /sync requests: two sync() runs over one queued create at
\* a time, enqueued while no run is in flight (the interleaving of mutations
\* with a run is in Spec).
AllIdle == \A r \in RunIds : run[r].pc = "idle"

NextOverlap ==
  \/ AllIdle /\ queue = {} /\ \E t \in TaskIds : createTask(t)
  \/ \E r \in RunIds : SyncStep(r)

SpecOverlap == Init /\ [][NextOverlap]_vars

\* A db.run of updateSyncStatus or handleSyncError rejects.  Inside the try
\* block (the verdicts of an answered batch) the rejection is caught by the
\* batch's catch, which handles every item of the batch as failed; inside the
\* catch block it leaves sync() as a rejection.
StorageFails(r) ==
  /\ run[r].pc \in {"apply", "applyDel", "errTask", "errDel"}
  /\ run' = [run EXCEPT ![r] =
               IF @.mode = "resp"
               THEN [@ EXCEPT !.pc = "apply", !.mode = "catch", !.k = 1,
                              !.item = NoItem]
               ELSE [@ EXCEPT !.pc = "threw"]]
  /\ hist' = [hist EXCEPT ![r].fault = TRUE, ![r].allFailed = FALSE,
                          ![r].allSuccess = FALSE]
  /\ UNCHANGED <<tasks, queue, nextId, streak, streakTasks, batchSize, attempts>>

\* POST /sync: the catch of the handler answers 500
Rejects(r) ==
  /\ run[r].pc = "threw"
  /\ run' = [run EXCEPT ![r] = IdleRun]
  /\ hist' = [hist EXCEPT ![r] = FreshHist]
  /\ streak' = 0
  /\ streakTasks' = {}
  /\ UNCHANGED <<tasks, queue, nextId, batchSize, attempts>>

\* Spec with storage faults.
NextStorage == Next \/ StorageFails(1) \/ Rejects(1)

SpecStorage == Init /\ [][NextStorage]_vars

\* SYNC_BATCH_SIZE=0: for (let i = 0; i < n; i += BATCH_SIZE) never advances
\* i, and pushes slice(0, 0), an empty batch, at each turn.  The loop has no
\* await, so no other handler runs meanwhile; the array grows until the
\* process dies of heap exhaustion (here after MaxSpin turns), and sync()
\* has returned nothing.
PartitionSpins(r) ==
  /\ batchSize <= 0
  /\ \/ /\ run[r].pc = "read"
        /\ Len(PendingItems(queue)) > 0
        /\ run' = [run EXCEPT ![r] =
                     [@ EXCEPT !.pc = "partition",
                               !.syncQueueItems = PendingItems(queue)]]
     \/ /\ run[r].pc = "partition"
        /\ Len(run[r].batches) < MaxSpin
        /\ run' = [run EXCEPT ![r].batches =
                     Append(@, Slice(run[r].syncQueueItems, 0, batchSize))]
     \/ /\ run[r].pc = "partition"
        /\ Len(run[r].batches) >= MaxSpin
        /\ run' = [run EXCEPT ![r].pc = "aborted"]
  /\ UNCHANGED <<tasks, queue, nextId, hist, streak, streakTasks, batchSize,
                 attempts>>

NoSpin == \A r \in RunIds : run[r].pc \notin {"partition", "aborted"}

\* Spec for every value SYNC_BATCH_SIZE may be given, zero included, with
\* every call of sync() running on as long as it can.
InitConfig ==
  /\ tasks = [t \in TaskIds |-> AbsentRow]
  /\ queue = {}
  /\ nextId = 1
  /\ run = [r \in RunIds |-> IdleRun]
  /\ hist = [r \in RunIds |-> FreshHist]
  /\ streak = 0
  /\ streakTasks = {}
  /\ batchSize \in 0..BatchSize
  /\ attempts = [i \in ItemIds |-> 0]

NextConfig == (NoSpin /\ Next) \/ PartitionSpins(1)

SpecConfig ==
  InitConfig /\ [][NextConfig]_vars
    /\ WF_vars(SyncStep(1)) /\ WF_vars(PartitionSpins(1))

\* ---------------------------------------------------------------- claims
ItemsOfTask(q, t) == {x \in q : x.task_id = t}

\* the items run r read at its start, as a set of item ids
ReadIds(r) == {run[r].syncQueueItems[i].id : i \in DOMAIN run[r].syncQueueItems}

\* item x was submitted in the batch whose response run r is applying, and
\* its own verdict there is success (directly or by conflict resolution)
ConfirmedBy(r, x) ==
  /\ run[r].mode = "resp"
  /\ \E j \in DOMAIN run[r].processed :
       /\ CurBatch(run[r])[j].id = x.id
       /\ run[r].processed[j].status = "success"

\* C1: an item leaves the queue only when its own operation got a success
\* verdict or when its own retry counter reached the maximum.
C1_RemovedOnlyConfirmedOrExhausted ==
  [][\A x \in queue :
       x.id \notin Ids(queue') =>
         \/ \E r \in RunIds : ConfirmedBy(r, x)
         \/ x.retry_count >= MaxRetries]_vars

\* C2: at the end of a run every item it submitted was either removed by a
\* success or had its retry counter advanced, never both and never neither.
C2_ExactlyOneOutcome ==
  \A r \in RunIds :
    run[r].pc = "done" =>
      \A id \in ReadIds(r) :
        (id \in hist[r].removedOnSuccess) # (id \in hist[r].advanced)

\* the items a mutation appended after run r read the queue
AppendedDuring(r) ==
  IF run[r].pc \in {"idle", "probe", "read"} THEN {}
  ELSE {x \in queue : x.id \notin ReadIds(r)}

\* C3: an item appended by a mutation during a run stays in the queue, and
\* the task that mutation marked pending is not set synced by that run.
C3_ConcurrentMutationSafe ==
  [][\A r \in RunIds : \A x \in AppendedDuring(r) :
       /\ x.id \in Ids(queue')
       /\ tasks[x.task_id].sync_status = "pending"
            => tasks'[x.task_id].sync_status # "synced"]_vars

\* the items of the batch run r has submitted and is applying the outcome of
Submitted(r) ==
  IF run[r].pc \in {"apply", "applyDel", "errTask", "errDel"}
  THEN Ids(Range(CurBatch(run[r]))) ELSE {}

\* C4: sync runs are serialized, so no two runs are in flight with the same
\* queue item read and submitted by both.
C4_NoItemSubmittedByTwoRuns ==
  \A r1, r2 \in RunIds :
    r1 # r2 => Submitted(r1) \cap Submitted(r2) = {}

\* C5: a task whose sync status is pending has at least one queue item.
C5_PendingHasQueueItem ==
  \A t \in TaskIds :
    tasks[t].sync_status = "pending" => ItemsOfTask(queue, t) # {}

\* C6: a run that submitted one update of task A and got a conflict whose
\* server version is newer than the local one ends with A's title the
\* server's, A synced, no item of A queued, and reports success.
C6_ConflictServerVersionStored ==
  \A r \in RunIds :
    (/\ run[r].pc = "done"
     /\ hist[r].quiet
     /\ Len(run[r].syncQueueItems) = 1
     /\ run[r].syncQueueItems[1].operation = "update"
     /\ Len(run[r].processed) = 1
     /\ run[r].processed[1].verdict = "conflict"
     /\ run[r].processed[1].server_at
          > tasks[run[r].syncQueueItems[1].task_id].updated_at)
    => LET t == run[r].syncQueueItems[1].task_id
       IN  /\ tasks[t].title = ServerTitle
           /\ tasks[t].sync_status = "synced"
           /\ ItemsOfTask(queue, t) = {}
           /\ run[r].result.success

\* C7: every conflict verdict is resolved to a success in the same run; a
\* one-batch run whose verdicts are all conflicts counts every item as
\* synced, none as failed, and leaves none of them queued.
C7_ConflictNeverAnError ==
  \A r \in RunIds :
    /\ \A j \in DOMAIN run[r].processed :
         run[r].processed[j].verdict = "conflict"
           => run[r].processed[j].status = "success"
    /\ (/\ run[r].pc = "done"
        /\ Len(run[r].batches) = 1
        /\ Len(run[r].processed) > 0
        /\ \A j \in DOMAIN run[r].processed :
             run[r].processed[j].verdict = "conflict")
       => /\ run[r].result.synced_items = Len(run[r].processed)
          /\ run[r].result.failed_items = 0
          /\ run[r].result.errors = <<>>
          /\ ReadIds(r) \cap Ids(queue) = {}

\* C8: a run whose probe fails returns success=false, zero counts and one
\* error entry, and none of its steps changes a queue item or a task.
C8_OfflineLeavesQueueUntouched ==
  [][\A r \in RunIds :
       (run[r].pc \in {"idle", "probe"} /\ run'[r].pc # run[r].pc) =>
          /\ queue' = queue
          /\ tasks' = tasks
          /\ run'[r].pc = "done" =>
               /\ run'[r].result.returned
               /\ run'[r].result.success = FALSE
               /\ run'[r].result.synced_items = 0
               /\ run'[r].result.failed_items = 0
               /\ Len(run'[r].result.errors) = 1]_vars

\* a run has returned the offline result while items are queued
C8_Witness ==
  /\ run[1].pc = "done"
  /\ run[1].result = OfflineResult
  /\ queue # {}

\* C9: for each item of a batch that failed at the transport, the failure
\* handler raises that item's stored retry counter by one, one error entry is
\* added, and nothing is counted as synced.
C9_WholesaleFailureAdvancesEachItem ==
  [][\A r \in RunIds :
       (/\ run[r].mode = "catch"
        /\ run[r].pc \in {"apply", "errTask", "errDel"}
        /\ run'[r] # run[r]) =>
          /\ run'[r].syncedItems = run[r].syncedItems
          /\ run[r].pc = "apply" =>
               \E x \in queue :
                 /\ x.id = CurBatch(run[r])[run[r].k].id
                 /\ \E y \in queue' :
                      y.id = x.id /\ y.retry_count = x.retry_count + 1
          /\ run'[r].pc \in {"apply", "send", "done"} =>
               Len(run'[r].errors) = Len(run[r].errors) + 1]_vars

\* C10: after three consecutive runs that were reachable and failed at the
\* transport, with no mutation since the first began, every task that had a
\* pending item is in error, has no queue item, and a further run reads none.
C10_ThreeFailuresPurge ==
  streak >= MaxRetries =>
    \A t \in streakTasks :
      /\ tasks[t].sync_status = "error"
      /\ ItemsOfTask(queue, t) = {}
      /\ \A r \in RunIds :
           \A i \in DOMAIN run[r].syncQueueItems :
             run[r].syncQueueItems[i].task_id # t

\* a fourth run has finished after three failed ones purged a task's items
C10_Witness ==
  /\ streak >= MaxRetries
  /\ streakTasks # {}
  /\ run[1].pc = "done"

\* C11: no queue item is submitted to the remote in more than three runs.
C11_AtMostThreeAttempts ==
  \A i \in ItemIds : attempts[i] <= MaxRetries

C13_RetryCounterNeverDecreases ==
  [][\A x \in queue : \A y \in queue' :
       y.id = x.id => y.retry_count >= x.retry_count]_vars

\* C14: a task mutation marks the task pending; a step of a sync run changes
\* a task's sync status only from pending to synced or from pending to error
\* (so never from synced to error).
C14_StatusTransitions ==
  [][\A t \in TaskIds :
       tasks'[t].sync_status # tasks[t].sync_status =>
         IF nextId' # nextId
         THEN tasks'[t].sync_status = "pending"
         ELSE /\ tasks[t].sync_status = "pending"
              /\ tasks'[t].sync_status \in {"synced", "error"}]_vars

\* where run record rec submits item id: <<batch number, position in it>>
SubmitPos(rec, id) ==
  CHOOSE bj \in {<<b, j>> : b \in DOMAIN rec.batches, j \in 1..BatchSize} :
    /\ bj[2] \in DOMAIN rec.batches[bj[1]]
    /\ rec.batches[bj[1]][bj[2]].id = id

Earlier(p, q) == p[1] < q[1] \/ (p[1] = q[1] /\ p[2] < q[2])

C16_AllSuccessRunSyncsEverything ==
  \A r \in RunIds :
    (/\ run[r].pc = "done"
     /\ Len(run[r].syncQueueItems) > 0
     /\ hist[r].quiet
     /\ hist[r].allSuccess)
    => /\ ReadIds(r) \cap Ids(queue) = {}
       /\ \A x \in Range(run[r].syncQueueItems) :
            /\ tasks[x.task_id].sync_status = "synced"
            /\ ItemsOfTask(queue, x.task_id) = {}
       /\ run[r].result.returned
       /\ run[r].result.success
       /\ run[r].result.synced_items = Len(run[r].syncQueueItems)
       /\ run[r].result.failed_items = 0
       /\ run[r].result.errors = <<>>

\* a task's one queued create has been synced by an all-success run
C16_Witness ==
  /\ run[1].pc = "done"
  /\ hist[1].quiet
  /\ hist[1].allSuccess
  /\ Len(run[1].syncQueueItems) = 1
  /\ run[1].syncQueueItems[1].operation = "create"
  /\ run[1].result.synced_items = 1

\* the queue item whose submission the failure handler of run r is about to
\* record as failed: the k-th item of the batch in flight
FailedItem(r) == CurBatch(run[r])[run[r].k]

\* C17: when the failure of a submitted item is handled and the item's retry
\* counter stays below the maximum, the item is still queued afterwards with
\* its stored counter raised by exactly one, and its task is pending.
C17_FailureKeepsItemPending ==
  [][\A r \in RunIds :
       (/\ run[r].pc = "apply"
        /\ run'[r] # run[r]
        /\ IF run[r].mode = "catch" THEN TRUE
           ELSE run[r].processed[run[r].k].status # "success"
        /\ NewRetryCount(FailedItem(r)) < MaxRetries)
       => /\ \E x \in queue : \E y \in queue' :
               /\ x.id = FailedItem(r).id
               /\ y.id = x.id
               /\ y.retry_count = x.retry_count + 1
          /\ tasks'[FailedItem(r).task_id].sync_status = "pending"]_vars

\* C18 (as stated): in every result returned by sync(), success is true
\* exactly when failed_items is zero.
C18_SuccessIffNoFailedItems ==
  \A r \in RunIds :
    run[r].result.returned =>
      (run[r].result.success <=> run[r].result.failed_items = 0)

\* C18 (amended): in every result returned by sync(), success is true exactly
\* when the result has no error entry; failed_items counts the error entries,
\* except in the result of a run whose probe failed, which has success false,
\* failed_items zero and one error entry.
C18_SuccessIffNoErrorEntry ==
  \A r \in RunIds :
    run[r].result.returned =>
      /\ run[r].result.success <=> run[r].result.errors = <<>>
      /\ IF run[r].result = OfflineResult
         THEN ~run[r].result.success /\ run[r].result.failed_items = 0
         ELSE /\ run[r].result.failed_items = Len(run[r].result.errors)
              /\ run[r].result.success <=> run[r].result.failed_items = 0

\* a run has returned a result that counts a synced and a failed item
C18_Witness ==
  /\ run[1].pc = "done"
  /\ run[1].result.returned
  /\ run[1].result.failed_items > 0
  /\ run[1].result.synced_items > 0
  /\ ~run[1].result.success

\* C19: a run that read items returns only after its last batch was posted,
\* whichever batches failed at the transport, and its result counts every
\* item it read as synced or failed.
C19_TransportFailureDoesNotStopRun ==
  \A r \in RunIds :
    (run[r].pc = "done" /\ Len(run[r].batches) > 0) =>
      /\ run[r].bi = Len(run[r].batches)
      /\ run[r].result.synced_items + run[r].result.failed_items
           = Len(run[r].syncQueueItems)

\* a run has returned after its first batch failed at the transport and a
\* later batch was answered and an item of it synced
C19_Witness ==
  /\ run[1].pc = "done"
  /\ Len(run[1].batches) >= 2
  /\ hist[1].caught = 1
  /\ run[1].mode = "resp"
  /\ run[1].result.synced_items > 0
  /\ run[1].result.failed_items > 0

\* C20: once a storage error was raised while a run applies a verdict, the
\* run is a rejection handed to its caller: it handles no further item,
\* adds no error entry, raises no retry counter and returns no result.
C20_StorageErrorPropagates ==
  \A r \in RunIds : hist[r].fault => run[r].pc = "threw"

\* the operation kind of the task mutation of task t in the step at hand
MutationKind(t) ==
  IF ~tasks[t].exists THEN "create"
  ELSE IF tasks'[t].is_deleted /\ ~tasks[t].is_deleted THEN "delete"
  ELSE "update"

\* C21: a task mutation appends exactly one queue item, for its task, with
\* the operation kind of the mutation and retry counter 0, marks the task
\* pending, and changes or removes no queue item that was there.
C21_MutationEnqueuesOneItem ==
  [][nextId' # nextId =>
       \E t \in TaskIds :
         /\ tasks'[t] # tasks[t]
         /\ \A u \in TaskIds \ {t} : tasks'[u] = tasks[u]
         /\ tasks'[t].sync_status = "pending"
         /\ tasks'[t].updated_at = nextId
         /\ queue \subseteq queue'
         /\ \E x \in queue' \ queue :
              /\ queue' = queue \cup {x}
              /\ x.id \notin Ids(queue)
              /\ x.task_id = t
              /\ x.operation = MutationKind(t)
              /\ x.retry_count = 0]_vars

\* a create and a delete of one task are queued
C21_Witness ==
  \E x, y \in queue :
    /\ x.task_id = y.task_id
    /\ x.operation = "create"
    /\ y.operation = "delete"
    /\ x.retry_count = 0
    /\ y.retry_count = 0

\* the versions of a task as the resolver is given them
LocalVersion(t) == [title |-> tasks[t].title, updated_at |-> tasks[t].updated_at]

ServerVersion(p) == [title |-> ServerTitle, updated_at |-> p.server_at]

\* run r receives, in the step at hand, the response whose j-th verdict is a
\* conflict that is resolved against the local task
Resolves(r, j) ==
  /\ run[r].pc = "send"
  /\ run'[r].mode = "resp"
  /\ j \in DOMAIN run'[r].processed
  /\ run'[r].processed[j].verdict = "conflict"
  /\ run'[r].processed[j].status = "success"

\* C22: the resolver returns the local version when the local last-modified
\* time is strictly greater than the server's, and the server version when
\* the server's is strictly greater.
C22_StrictlyNewerVersionWins ==
  [][\A r \in RunIds : \A j \in 1..BatchSize :
       Resolves(r, j) =>
         LET p == run'[r].processed[j]
             t == p.client_id
         IN  /\ tasks[t].updated_at > p.server_at
                  => p.resolved_data = LocalVersion(t)
             /\ p.server_at > tasks[t].updated_at
                  => p.resolved_data = ServerVersion(p)]_vars

\* a conflict has been resolved for the local version, strictly newer than
\* the server's
C22_Witness ==
  /\ run[1].pc = "apply"
  /\ run[1].mode = "resp"
  /\ hist[1].quiet
  /\ run[1].processed[1].verdict = "conflict"
  /\ run[1].processed[1].status = "success"
  /\ run[1].processed[1].resolved_data.updated_at > run[1].processed[1].server_at
  /\ run[1].processed[1].resolved_data.title # ServerTitle

\* C23: when the local and the server version carry equal last-modified
\* times, the resolver returns the server version.
C23_ServerWinsTie ==
  [][\A r \in RunIds : \A j \in 1..BatchSize :
       Resolves(r, j) =>
         LET p == run'[r].processed[j]
             t == p.client_id
         IN  tasks[t].updated_at = p.server_at
               => p.resolved_data = ServerVersion(p)]_vars

\* a conflict between versions of equal last-modified time has been resolved
C23_Witness ==
  /\ run[1].pc = "apply"
  /\ run[1].mode = "resp"
  /\ hist[1].quiet
  /\ run[1].processed[1].verdict = "conflict"
  /\ run[1].processed[1].status = "success"
  /\ run[1].processed[1].server_at
       = tasks[run[1].processed[1].client_id].updated_at

\* C24: a reachable run that finds no queue item with a retry counter below
\* the maximum returns success with zero counts and no error entry, posts no
\* batch, and changes no queue item and no task.
C24_NothingPendingIsTrivialSuccess ==
  [][\A r \in RunIds :
       (/\ run[r].pc = "read"
        /\ run'[r] # run[r]
        /\ \A x \in queue : x.retry_count >= MaxRetries)
       => /\ run'[r].pc = "done"
          /\ run'[r].result.returned
          /\ run'[r].result.success
          /\ run'[r].result.synced_items = 0
          /\ run'[r].result.failed_items = 0
          /\ run'[r].result.errors = <<>>
          /\ run'[r].batches = <<>>
          /\ attempts' = attempts
          /\ queue' = queue
          /\ tasks' = tasks]_vars

\* a run has returned the empty result over a queue that holds only an item
\* at the retry maximum
C24_Witness ==
  /\ run[1].pc = "done"
  /\ run[1].result = EmptyResult
  /\ run[1].batches = <<>>
  /\ queue # {}
  /\ \A x \in queue : x.retry_count >= MaxRetries

\* C25: with sync() run again and again and the remote reachable, from some
\* point on the queue holds no item with a retry counter below the maximum.
C25_QueueConverges ==
  <>[](\A x \in queue : x.retry_count >= MaxRetries)

\* every mutation was made and the queue is empty after a run purged an item
\* at the retry maximum
C25_Witness ==
  /\ nextId > MaxItems
  /\ queue = {}
  /\ run[1].pc = "done"
  /\ run[1].result.failed_items > 0
  /\ \E t \in TaskIds : tasks[t].sync_status = "error"

\* C26: when an answered batch carries a non-success verdict for an item that
\* is still queued, handling the verdict raises the stored retry counter of
\* that item by one and, unless the item is to be purged, counts one failed
\* item and appends one error record with that item's task id and operation.
C26_ErrorVerdictHitsItsOwnItem ==
  [][\A r \in RunIds :
       (/\ run[r].pc = "apply"
        /\ run[r].mode = "resp"
        /\ run'[r] # run[r]
        /\ run'[r].mode = "resp"
        /\ run[r].processed[run[r].k].status # "success"
        /\ FailedItem(r).id \in Ids(queue))
       => /\ \E x \in queue : \E y \in queue' :
               /\ x.id = FailedItem(r).id
               /\ y.id = x.id
               /\ y.retry_count = x.retry_count + 1
          /\ run'[r].pc # "errTask" =>
               /\ run'[r].failedItems = run[r].failedItems + 1
               /\ run'[r].errors =
                    Append(run[r].errors,
                           [task_id |-> FailedItem(r).task_id,
                            operation |-> FailedItem(r).operation])]_vars

\* C27: every run of sync() that was started returns a result, whatever the
\* configured batch size.
C27_EveryRunReturns ==
  (run[1].pc = "probe") ~> (run[1].pc = "done")

\* the batches one after the other
RECURSIVE Flatten(_)
Flatten(bs) == IF bs = <<>> THEN <<>> ELSE Head(bs) \o Flatten(Tail(bs))

\* C28: for a positive batch size B, a run reads the items with a retry
\* counter below the maximum, oldest first, and cuts that list into
\* consecutive batches of at most B items, every batch but the last of
\* exactly B; a batch is posted only when every item of the batches before it
\* has been counted as synced or failed.
C28_ConsecutiveBatchesInTurn ==
  [][\A r \in RunIds :
       /\ (run[r].pc = "read" /\ run'[r].pc = "send") =>
            LET rec == run'[r]
                its == rec.syncQueueItems
            IN  /\ batchSize > 0
                /\ Range(its) = {x \in queue : x.retry_count < MaxRetries}
                /\ Len(its) = Cardinality(Range(its))
                /\ \A i, j \in DOMAIN its :
                     i < j => its[i].created_at <= its[j].created_at
                /\ Flatten(rec.batches) = its
                /\ \A b \in DOMAIN rec.batches :
                     /\ Len(rec.batches[b]) >= 1
                     /\ Len(rec.batches[b]) <= batchSize
                     /\ b < Len(rec.batches) => Len(rec.batches[b]) = batchSize
       /\ run'[r].pc = "send" =>
            run'[r].syncedItems + run'[r].failedItems
              = Len(Flatten(SubSeq(run'[r].batches, 1, run'[r].bi - 1)))]_vars

\* a run is about to post the second of two batches
C28_Witness ==
  /\ run[1].pc = "send"
  /\ run[1].bi = 2
  /\ Len(run[1].batches) = 2
  /\ run[1].syncedItems + run[1].failedItems = 1

\* C29: the result of a run that read items counts each of them once: its
\* synced_items and failed_items add up to the number of items read, also
\* when a storage error was raised after verdicts of the batch were applied.
C29_EachItemCountedOnce ==
  \A r \in RunIds :
    (run[r].pc = "done" /\ run[r].result.returned
       /\ Len(run[r].syncQueueItems) > 0)
    => /\ run[r].result.synced_items + run[r].result.failed_items
            = Len(run[r].syncQueueItems)
       /\ Len(run[r].result.errors) = run[r].result.failed_items

====
